---- MODULE Spec2Model ----
(***************************************************************************)
(* A model of the go-hyperliquid client core: the nonce generator          *)
(* (NextNonce), the numeric canonicalizers (PriceToWire, SizeToWire), the   *)
(* order wire builder (ToWire, ToWireMeta), the request envelope           *)
(* (ExchangeRequest) and the Hyperliquid client's setters.                  *)
(*                                                                         *)
(* Each part has its own specification over the same variables:            *)
(*   Spec          concurrent NextNonce callers                            *)
(*   SpecLive      the same under fair scheduling                          *)
(*   SpecNonces    NextNonce and GetNonce together                         *)
(*   SpecEnc       PriceToWire / SizeToWire / FloatToWire                  *)
(*   SpecOrder     ToWire / ToWireMeta / ToModifyWire                      *)
(*   SpecShared    the encoders called while NextNonce runs                *)
(*   SpecEnvelope  the ExchangeRequest envelope and its serialization      *)
(*   SpecClient    NewHyperliquid, SetDebugActive, SetAccountAddress, ...  *)
(***************************************************************************)
EXTENDS Integers, Sequences, FiniteSets, TLC

VARIABLES
    \* ---- nonce generator (hyperliquid.go:101-102, 166-176)
    lastNonce,   \* var lastNonce int64
    nonceLock,   \* var nonceLock sync.Mutex: 0 when free, else the holder
    pc,          \* position of each caller inside NextNonce
    now,         \* the local `now` of each caller
    ret,         \* the value each caller's last call returned
    issued,      \* history: the calls in the order they evaluated their return value
    fetched,     \* history: the values GetNonce returned, in call order
    \* ---- numeric canonicalizers (convert.go:179-246)
    encFn,       \* which encoder was called ("none" before the call)
    encX,        \* the float argument, as a decimal
    encMaxDec,   \* maxDecimals
    encSzDec,    \* szDecimals
    encNaN,      \* what int(NaN) yields on this build
    encOut,      \* the string returned
    encAgain,    \* the string returned for the parsed-back result
    encErr,      \* the error returned to the caller ("nil" when none)
    \* ---- order wire builder (convert.go:61-119)
    ordFn,       \* which operation ran last
    ordReq,      \* the OrderRequest
    ordMeta,     \* the symbol -> AssetInfo map
    ordInfo,     \* the AssetInfo handed to ToWire
    ordWire,     \* the OrderWire returned
    ordModify,   \* the ModifyOrderWire returned
    ordErr,      \* the error returned to the caller ("nil" when none)
    \* ---- request envelope (exchange_types.go:14-19)
    envelope,    \* the ExchangeRequest built last
    payload,     \* its serialization: the sequence of <<key, value>> pairs
    typedSig,    \* the last ToTypedSig call: its arguments and the RsvSignature
    \* ---- Hyperliquid client (hyperliquid.go:8-88)
    exDebug,     \* h.ExchangeAPI.Debug
    infoDebug,   \* h.InfoAPI.Debug
    exAddr,      \* h.ExchangeAPI account address
    infoAddr,    \* h.InfoAPI account address
    userRole,    \* h.ExchangeAPI user role
    lastSet,     \* history: <<a>> once SetAccountAddress(a) was the latest such call
    lookedUp,    \* history: the address and the outcome of the latest GetUserRole
    cliOp,       \* the client operation that ran last
    cliErr       \* the error that operation returned ("nil" when none)

nonceVars == <<lastNonce, nonceLock, pc, now, ret, issued, fetched>>
encVars == <<encFn, encX, encMaxDec, encSzDec, encNaN, encOut, encAgain, encErr>>
ordVars == <<ordFn, ordReq, ordMeta, ordInfo, ordWire, ordModify, ordErr>>
envVars == <<envelope, payload, typedSig>>
cliVars == <<exDebug, infoDebug, exAddr, infoAddr, userRole, lastSet, lookedUp, cliOp, cliErr>>
vars == <<nonceVars, encVars, ordVars, envVars, cliVars>>
notNonce == <<encVars, ordVars, envVars, cliVars>>
notClient == <<nonceVars, encVars, ordVars, envVars>>

(***************************************************************************)
(* Bounds of the model.                                                    *)
(***************************************************************************)
NumCallers == 2
MaxClock == 3
MaxCalls == 3

Callers == 1..NumCallers
\* time.Now().UnixNano() / 1_000_000 is an int64: negative before 1970.
ClockReadings == (0 - 1)..MaxClock

(***************************************************************************)
(* Idle states of the parts a specification does not exercise.             *)
(***************************************************************************)
NonceInit ==
    /\ lastNonce = 0
    /\ nonceLock = 0
    /\ pc = [p \in Callers |-> "idle"]
    /\ now = [p \in Callers |-> 0]
    /\ ret = [p \in Callers |-> 0]
    /\ issued = <<>>
    /\ fetched = <<>>

(***************************************************************************)
(* NextNonce, one action per statement.                                    *)
(***************************************************************************)
\* A caller enters NextNonce.
Call(p) ==
    /\ pc[p] = "idle"
    /\ Len(issued) + Len(fetched) + Cardinality({q \in Callers : pc[q] # "idle"}) < MaxCalls
    /\ pc' = [pc EXCEPT ![p] = "lock"]
    /\ UNCHANGED <<lastNonce, nonceLock, now, ret, issued, fetched, notNonce>>

\* A Lock that excludes nobody.
LockNoExclusion(p) ==
    /\ pc[p] = "lock"
    /\ pc' = [pc EXCEPT ![p] = "read"]
    /\ UNCHANGED <<lastNonce, nonceLock, now, ret, issued, fetched, notNonce>>

\* nonceLock.Lock()
Lock(p) ==
    /\ pc[p] = "lock"
    /\ nonceLock = 0
    /\ nonceLock' = p
    /\ pc' = [pc EXCEPT ![p] = "read"]
    /\ UNCHANGED <<lastNonce, now, ret, issued, fetched, notNonce>>

\* now := time.Now().UnixNano() / 1_000_000
ReadClock(p) ==
    /\ pc[p] = "read"
    /\ \E t \in ClockReadings : now' = [now EXCEPT ![p] = t]
    /\ pc' = [pc EXCEPT ![p] = "update"]
    /\ UNCHANGED <<lastNonce, nonceLock, ret, issued, fetched, notNonce>>

\* The comparison written with < in place of <=.
UpdateStrict(p) ==
    /\ pc[p] = "update"
    /\ lastNonce' = IF now[p] < lastNonce THEN lastNonce + 1 ELSE now[p]
    /\ pc' = [pc EXCEPT ![p] = "return"]
    /\ UNCHANGED <<nonceLock, now, ret, issued, fetched, notNonce>>

\* A counter that only ever counts up by one.
UpdateIncrementOnly(p) ==
    /\ pc[p] = "update"
    /\ lastNonce' = lastNonce + 1
    /\ pc' = [pc EXCEPT ![p] = "return"]
    /\ UNCHANGED <<nonceLock, now, ret, issued, fetched, notNonce>>

\* if now <= lastNonce { lastNonce++ } else { lastNonce = now }
Update(p) ==
    /\ pc[p] = "update"
    /\ lastNonce' = IF now[p] <= lastNonce THEN lastNonce + 1 ELSE now[p]
    /\ pc' = [pc EXCEPT ![p] = "return"]
    /\ UNCHANGED <<nonceLock, now, ret, issued, fetched, notNonce>>

\* return uint64(lastNonce): the operand is evaluated before the deferred Unlock.
Return(p) ==
    /\ pc[p] = "return"
    /\ ret' = [ret EXCEPT ![p] = lastNonce]
    /\ issued' = Append(issued, [v |-> lastNonce, now |-> now[p], by |-> p])
    /\ pc' = [pc EXCEPT ![p] = "unlock"]
    /\ UNCHANGED <<lastNonce, nonceLock, now, fetched, notNonce>>

\* A return that leaves the lock held.
UnlockForgotten(p) ==
    /\ pc[p] = "unlock"
    /\ pc' = [pc EXCEPT ![p] = "idle"]
    /\ UNCHANGED <<lastNonce, nonceLock, now, ret, issued, fetched, notNonce>>

\* defer nonceLock.Unlock()
Unlock(p) ==
    /\ pc[p] = "unlock"
    /\ nonceLock' = 0
    /\ pc' = [pc EXCEPT ![p] = "idle"]
    /\ UNCHANGED <<lastNonce, now, ret, issued, fetched, notNonce>>

NextNonce(p) ==
    \/ Call(p)
    \/ Lock(p)
    \/ ReadClock(p)
    \/ Update(p)
    \/ Return(p)
    \/ Unlock(p)

\* func GetNonce() uint64 { return uint64(time.Now().UnixMilli()) }
\* It takes no lock and looks at no counter.  Each value is recorded with the
\* number of NextNonce values returned before it.
GetNonce ==
    /\ Len(issued) + Len(fetched) + Cardinality({q \in Callers : pc[q] # "idle"}) < MaxCalls
    /\ \E t \in 0..MaxClock :
           fetched' = Append(fetched, [v |-> t, after |-> Len(issued)])
    /\ UNCHANGED <<lastNonce, nonceLock, pc, now, ret, issued, notNonce>>

(***************************************************************************)
(* Decimal numbers and strings.                                            *)
(*                                                                         *)
(* A float64 argument is modelled as an exact decimal [neg, n, k], the     *)
(* number (-1)^neg * n / 10^k; [neg |-> TRUE, n |-> 0] is the float -0.    *)
(* A Go string is the sequence of its characters.                          *)
(***************************************************************************)
Dec(neg, n, k) == [neg |-> neg, n |-> n, k |-> k]

DigitChars == <<"0", "1", "2", "3", "4", "5", "6", "7", "8", "9">>

RECURSIVE Pow(_, _)
Pow(b, e) == IF e <= 0 THEN 1 ELSE b * Pow(b, e - 1)

\* The decimal digits of a natural number, most significant first.
RECURSIVE NatDigits(_)
NatDigits(n) ==
    IF n < 10 THEN <<DigitChars[n + 1]>>
    ELSE NatDigits(n \div 10) \o <<DigitChars[(n % 10) + 1]>>

\* n written with exactly w digits (n < 10^w), zero padded on the left.
RECURSIVE PadDigits(_, _)
PadDigits(n, w) ==
    IF w <= 0 THEN <<>>
    ELSE PadDigits(n \div 10, w - 1) \o <<DigitChars[(n % 10) + 1]>>

RECURSIVE Zeros(_)
Zeros(w) == IF w <= 0 THEN <<>> ELSE <<"0">> \o Zeros(w - 1)

\* strconv.FormatInt(i, 10)
FormatInt(i) == IF i < 0 THEN <<"-">> \o NatDigits(0 - i) ELSE NatDigits(i)

\* int64(x): truncation toward zero (an int has no negative zero).
Int64(x) ==
    LET q == x.n \div Pow(10, x.k) IN IF x.neg THEN 0 - q ELSE q

\* x == math.Trunc(x)
IsInteger(x) == x.n % Pow(10, x.k) = 0

\* x >= 1
GeOne(x) == ~x.neg /\ x.n >= Pow(10, x.k)

\* strings.Contains(s, c) for a one-character c
Contains(s, c) == \E i \in DOMAIN s : s[i] = c

\* strings.TrimRight(s, c) for a one-character cutset c
RECURSIVE TrimRight(_, _)
TrimRight(s, c) ==
    IF Len(s) > 0 /\ s[Len(s)] = c THEN TrimRight(SubSeq(s, 1, Len(s) - 1), c)
    ELSE s

\* strconv.FormatFloat(r, 'f', prec, 64) of a decimal r with at most prec
\* fractional digits; a negative prec asks for the shortest form.
FormatFloat(r, prec) ==
    LET p10 == Pow(10, r.k)
        int == NatDigits(r.n \div p10)
        frac == PadDigits(r.n % p10, r.k)
        sign == IF r.neg THEN <<"-">> ELSE <<>>
    IN  IF prec < 0
        THEN LET t == TrimRight(frac, "0")
             IN sign \o int \o (IF Len(t) = 0 THEN <<>> ELSE <<".">> \o t)
        ELSE sign \o int \o
                (IF prec = 0 THEN <<>> ELSE <<".">> \o frac \o Zeros(prec - r.k))

\* pow10(exp): 10^exp by repeated multiplication; 1 for exp <= 0.
RECURSIVE pow10(_)
pow10(exp) == IF exp <= 0 THEN 1 ELSE 10 * pow10(exp - 1)

\* The exponent e of a factor 10^e.
RECURSIVE Log10Exact(_)
Log10Exact(f) == IF f <= 1 THEN 0 ELSE 1 + Log10Exact(f \div 10)

\* x * factor, for a factor that is a power of ten.
MulFactor(x, factor) ==
    LET e == Log10Exact(factor)
    IN  IF x.k >= e THEN Dec(x.neg, x.n, x.k - e)
        ELSE Dec(x.neg, x.n * Pow(10, e - x.k), 0)

\* math.Round(y): to the nearest integer, halves away from zero, sign kept.
Round(y) ==
    LET p10 == Pow(10, y.k)
        q == y.n \div p10
        r == y.n % p10
    IN  Dec(y.neg, IF 2 * r >= p10 THEN q + 1 ELSE q, 0)

\* y / factor, for a factor that is a power of ten.
DivFactor(y, factor) == Dec(y.neg, y.n, y.k + Log10Exact(factor))

\* int(math.Floor(math.Log10(x))) + 1 for x >= 1: the digits of the integer part.
IntDigits(x) == Len(NatDigits(x.n \div Pow(10, x.k)))

\* int(math.Ceil(-math.Log10(x))) for 0 < x < 1: the least e with 10^-e <= x.
CeilNegLog10(x) == x.k - Len(NatDigits(x.n)) + 1

Min(a, b) == IF a < b THEN a ELSE b
Max(a, b) == IF a > b THEN a ELSE b

DigitOf(c) == CHOOSE d \in 0..9 : DigitChars[d + 1] = c

RECURSIVE DigitsValue(_)
DigitsValue(s) ==
    IF Len(s) = 0 THEN 0
    ELSE 10 * DigitsValue(SubSeq(s, 1, Len(s) - 1)) + DigitOf(s[Len(s)])

\* strconv.ParseFloat(s, 64) of a plain decimal string.
ParseFloat(s) ==
    LET neg == Len(s) > 0 /\ s[1] = "-"
        body == IF neg THEN Tail(s) ELSE s
        dot == IF Contains(body, ".")
               THEN CHOOSE i \in DOMAIN body : body[i] = "."
               ELSE Len(body) + 1
        ip == SubSeq(body, 1, dot - 1)
        fp == SubSeq(body, dot + 1, Len(body))
    IN  Dec(neg, DigitsValue(ip \o fp), Len(fp))

(***************************************************************************)
(* int(NaN).  For a negative non-integer price math.Log10 returns NaN, and *)
(* Go leaves the conversion of NaN to int to the implementation: amd64     *)
(* yields the least int64, arm64 yields 0.  Only the sign of 4 + exponent  *)
(* matters below, so NaNLow stands for the least int64.                    *)
(***************************************************************************)
NaNLow == 0 - 2 ^ 20
NaNExponents == {NaNLow, 0}

(***************************************************************************)
(* PriceToWire (convert.go:179-224)                                        *)
(***************************************************************************)
\* The significant-figures rule with a cap of 6 figures.
AllowedSigSix(x, nanExp) ==
    IF GeOne(x) THEN Max(0, 6 - IntDigits(x))
    ELSE 5 + (IF x.neg THEN nanExp ELSE CeilNegLog10(x))

\* The tick rule alone.
AllowedDecimalsTickOnly(x, maxDecimals, szDecimals, nanExp) ==
    Max(0, maxDecimals - szDecimals)

\* Rule 2: at most 5 significant digits.
AllowedSig(x, nanExp) ==
    IF GeOne(x) THEN Max(0, 5 - IntDigits(x))
    ELSE 4 + (IF x.neg THEN nanExp ELSE CeilNegLog10(x))

\* The minimum of the tick rule and the significant-figures rule, floored at 0.
AllowedDecimals(x, maxDecimals, szDecimals, nanExp) ==
    LET allowedTick == maxDecimals - szDecimals
        allowedSig == AllowedSig(x, nanExp)
    IN  Max(0, Min(allowedTick, allowedSig))

\* math.Round(x*factor) / factor
RoundTo(x, decimals) ==
    LET factor == pow10(decimals)
    IN  DivFactor(Round(MulFactor(x, factor)), factor)

PriceToWire(x, maxDecimals, szDecimals, nanExp) ==
    IF IsInteger(x) THEN FormatInt(Int64(x))
    ELSE LET allowedDecimals == AllowedDecimals(x, maxDecimals, szDecimals, nanExp)
             rounded == RoundTo(x, allowedDecimals)
             s == FormatFloat(rounded, allowedDecimals)
         IN  IF Contains(s, ".") THEN TrimRight(TrimRight(s, "0"), ".") ELSE s

(***************************************************************************)
(* SizeToWire (convert.go:229-246)                                         *)
(***************************************************************************)
\* The two trims applied in the opposite order.
SizeTrimSwapped(s) == TrimRight(TrimRight(s, "."), "0")

\* strings.TrimRight(strings.TrimRight(s, "0"), ".")
SizeTrim(s) == TrimRight(TrimRight(s, "0"), ".")

SizeToWire(x, szDecimals) ==
    IF szDecimals = 0 THEN FormatInt(Int64(x))
    ELSE IF IsInteger(x) THEN FormatInt(Int64(x))
    ELSE SizeTrim(FormatFloat(RoundTo(x, szDecimals), szDecimals))

(***************************************************************************)
(* FloatToWire, in its two forms (convert.go:141-162 and 416-437).         *)
(***************************************************************************)
\* fmt.Sprintf("%.*f", prec, x): x printed with prec decimals, sign kept.  A
\* decimal lying exactly between two candidates is decided by the binary
\* value of the float64, which the decimal does not carry: tieUp is that
\* outcome.
Sprintf(prec, x, tieUp) ==
    IF x.k <= prec THEN FormatFloat(x, prec)
    ELSE LET p10 == Pow(10, x.k - prec)
             q == x.n \div p10
             r == x.n % p10
             up == 2 * r > p10 \/ (2 * r = p10 /\ tieUp)
         IN  FormatFloat(Dec(x.neg, IF up THEN q + 1 ELSE q, prec), prec)

\* strings.TrimSuffix(s, c) for a one-character c: at most one is removed.
TrimSuffix(s, c) ==
    IF Len(s) > 0 /\ s[Len(s)] = c THEN SubSeq(s, 1, Len(s) - 1) ELSE s

\* for strings.HasSuffix(rounded, "0") { rounded = strings.TrimSuffix(rounded, "0") }
TrimZeros(rounded) == TrimRight(rounded, "0")

\* len(strconv.FormatInt(intPart, 10)) for intPart, _ := bigf.Int64()
IntSize(x) == Len(FormatInt(Int64(x)))

\* func FloatToWire(x float64, maxDecimals int, szDecimals int) string
FloatToWire(x, maxDecimals, szDecimals, tieUp) ==
    LET intSize == IntSize(x)
        maxDecSz == IF intSize >= maxDecimals THEN 0 ELSE maxDecimals - intSize
        rounded == Sprintf(maxDecSz, x, tieUp)
        trimmed == IF Contains(rounded, ".") THEN TrimZeros(rounded) ELSE rounded
    IN  TrimSuffix(trimmed, ".")

\* func FloatToWire(x float64, szDecimals *int) string, the older form.
FloatToWireOpt(x, szDecimals, tieUp) ==
    LET intSize == IntSize(x)
        maxDecSz == IF szDecimals # <<>> THEN szDecimals[1]
                    ELSE IF intSize >= 6 THEN 0 ELSE 6 - intSize
        rounded == Sprintf(maxDecSz, x, tieUp)
    IN  TrimSuffix(TrimZeros(rounded), ".")

(***************************************************************************)
(* Order wire builder (convert.go:61-119).  A Go pointer is the empty      *)
(* sequence when nil and a one-element sequence when it points at a value. *)
(***************************************************************************)
PERP_MAX_DECIMALS == 6
SPOT_MAX_DECIMALS == 8

\* A classification that knows only the "@" notation.
isSpotAtOnly(req) == Contains(req.Coin, "@")

\* strings.ContainsAny(req.Coin, "@-")
isSpot(req) == Contains(req.Coin, "@") \/ Contains(req.Coin, "-")

\* A conversion that copies both pointers as they are.
OrderTypeToWireBoth(orderType) ==
    [Limit |-> orderType.Limit, Trigger |-> orderType.Trigger]

OrderTypeToWire(orderType) ==
    IF orderType.Limit # <<>>
    THEN [Limit |-> <<[Tif |-> orderType.Limit[1].Tif]>>, Trigger |-> <<>>]
    ELSE IF orderType.Trigger # <<>>
    THEN [Limit |-> <<>>,
          Trigger |-> <<[TpSl |-> orderType.Trigger[1].TpSl,
                         TriggerPx |-> orderType.Trigger[1].TriggerPx,
                         IsMarket |-> orderType.Trigger[1].IsMarket]>>]
    ELSE [Limit |-> <<>>, Trigger |-> <<>>]

ToWire(req, info, nanExp) ==
    LET assetID == IF isSpot(req) THEN info.AssetID + 10000 ELSE info.AssetID
        maxDecimals == IF isSpot(req) THEN SPOT_MAX_DECIMALS ELSE PERP_MAX_DECIMALS
    IN  [Asset |-> assetID,
         IsBuy |-> req.IsBuy,
         LimitPx |-> PriceToWire(req.LimitPx, maxDecimals, info.SzDecimals, nanExp),
         SizePx |-> SizeToWire(req.Sz, info.SzDecimals),
         ReduceOnly |-> req.ReduceOnly,
         OrderType |-> OrderTypeToWire(req.OrderType),
         Cloid |-> req.Cloid]

\* A map whose index expression inserts the zero value for an absent key.
MapAfterIndexInserting(meta, key) ==
    [k \in DOMAIN meta \cup {key} |->
        IF k \in DOMAIN meta THEN meta[k]
        ELSE [SzDecimals |-> 0, WeiDecimals |-> 0, AssetID |-> 0, SpotName |-> ""]]

\* The map after info := meta[req.Coin]: an index expression adds no entry.
MapAfterIndex(meta, key) == meta

\* The zero value of AssetInfo, which indexing a Go map yields for an absent key.
ZeroAssetInfo == [SzDecimals |-> 0, WeiDecimals |-> 0, AssetID |-> 0, SpotName |-> ""]

\* info := meta[req.Coin]
MapIndex(meta, key) == IF key \in DOMAIN meta THEN meta[key] ELSE ZeroAssetInfo

ToWireMeta(req, meta, nanExp) == ToWire(req, MapIndex(meta, req.Coin), nanExp)

\* A modify wire built from the zero AssetInfo instead of the one given.
ToModifyWireZeroInfo(req, info, nanExp) ==
    [OrderID |-> req.OrderID[1], Order |-> ToWire(req, ZeroAssetInfo, nanExp)]

\* ModifyOrderWire{OrderID: *req.OrderID, Order: req.ToWire(info)}
ToModifyWire(req, info, nanExp) ==
    [OrderID |-> req.OrderID[1], Order |-> ToWire(req, info, nanExp)]

\* What dereferencing a nil req.OrderID ends in.
NilDereference == "panic: nil pointer dereference"

(***************************************************************************)
(* ExchangeRequest (exchange_types.go:14-19) and its serialization: the    *)
(* sequence of the <<key, value>> pairs written, in field order.           *)
(***************************************************************************)
HexChars == <<"0", "1", "2", "3", "4", "5", "6", "7", "8", "9",
              "a", "b", "c", "d", "e", "f">>

RECURSIVE HexDigits(_)
HexDigits(bytes) ==
    IF Len(bytes) = 0 THEN <<>>
    ELSE <<HexChars[(Head(bytes) \div 16) + 1], HexChars[(Head(bytes) % 16) + 1]>>
            \o HexDigits(Tail(bytes))

\* hexutil.Encode(b): "0x" and two hex digits for each byte.
HexEncode(bytes) == <<"0", "x">> \o HexDigits(bytes)

\* func ToTypedSig(r [32]byte, s [32]byte, v byte) RsvSignature
ToTypedSig(r, s, v) == [R |-> HexEncode(r), S |-> HexEncode(s), V |-> v]

ExchangeRequest(action, nonce, signature, vaultAddress) ==
    [Action |-> action, Nonce |-> nonce, Signature |-> signature,
     VaultAddress |-> vaultAddress]

\* omitempty as it applies to a string field: the empty string is dropped too.
VaultFieldAsString(req) ==
    IF req.VaultAddress = <<>> \/ req.VaultAddress = <<"">> THEN <<>>
    ELSE << <<"vaultAddress", req.VaultAddress[1]>> >>

\* VaultAddress *string `json:"vaultAddress,omitempty" msgpack:",omitempty"`:
\* a nil pointer is omitted, any other pointer is written with the string it holds.
VaultField(req) ==
    IF req.VaultAddress = <<>> THEN <<>>
    ELSE << <<"vaultAddress", req.VaultAddress[1]>> >>

Marshal(req) ==
    << <<"action", req.Action>>, <<"nonce", req.Nonce>>,
       <<"signature", req.Signature>> >> \o VaultField(req)

HasKey(pairs, key) == \E i \in DOMAIN pairs : pairs[i][1] = key
ValueOf(pairs, key) == pairs[CHOOSE i \in DOMAIN pairs : pairs[i][1] = key][2]

(***************************************************************************)
(* The Hyperliquid client (hyperliquid.go:8-88).  The embedded Client      *)
(* (its Debug flag, its account address and their setters) and the         *)
(* ExchangeAPI constructor are not among the sources; they are modelled as *)
(* plain fields and setters.                                               *)
(***************************************************************************)
Addresses == {"", "0x1234567890", "0xabcdef0000"}
Roles == {"user", "vault", "subAccount"}
LookupError == "lookup failed"

\* Client.SetDebugActive: the flag after the call.
ClientSetDebugActive(debug) == TRUE

\* Client.SetAccountAddress: the stored address after the call.
ClientSetAccountAddress(old, accountAddress) == accountAddress

\* NewExchangeAPI: a fresh ExchangeAPI; Debug is on when its own metadata
\* could not be built.
NewExchangeAPI(buildFails) ==
    [Debug |-> IF buildFails THEN ClientSetDebugActive(FALSE) ELSE FALSE,
     AccountAddress |-> "", UserRole |-> ""]

\* NewInfoAPI: BuildSpotMetaMap fails => api.SetDebugActive().
NewInfoAPI(buildSpotMetaFails) ==
    [Debug |-> IF buildSpotMetaFails THEN ClientSetDebugActive(FALSE) ELSE FALSE,
     AccountAddress |-> ""]

\* ExchangeAPI.SetUserRole: the stored role after the call.
ExchangeSetUserRole(old, role) == role

\* An UpdateVaultAddress that clears the role when the lookup fails.
UpdateVaultAddressClearing(role, lookup) ==
    IF lookup = LookupError THEN [role |-> "", err |-> LookupError]
    ELSE [role |-> ExchangeSetUserRole(role, lookup), err |-> "nil"]

\* UpdateVaultAddress: the role afterwards and the error returned, for the
\* outcome of h.InfoAPI.GetUserRole(address).
UpdateVaultAddressResult(role, lookup) ==
    IF lookup = LookupError THEN [role |-> role, err |-> LookupError]
    ELSE [role |-> ExchangeSetUserRole(role, lookup), err |-> "nil"]

\* NewHyperliquid(config): the client it returns.
NewHyperliquid(accountAddress, exchangeBuildFails, spotMetaFails, lookup) ==
    LET exchangeAPI == NewExchangeAPI(exchangeBuildFails)
        infoAPI == NewInfoAPI(spotMetaFails)
    IN  [exDebug |-> exchangeAPI.Debug,
         infoDebug |-> infoAPI.Debug,
         exAddr |-> ClientSetAccountAddress(exchangeAPI.AccountAddress, accountAddress),
         infoAddr |-> ClientSetAccountAddress(infoAPI.AccountAddress, accountAddress),
         userRole |-> UpdateVaultAddressResult(exchangeAPI.UserRole, lookup).role]

\* func (h *Hyperliquid) AccountAddress() string
AccountAddress == exAddr

CliInit ==
    \E a \in Addresses, xf \in BOOLEAN, sf \in BOOLEAN, l \in Roles \cup {LookupError} :
        LET hl == NewHyperliquid(a, xf, sf, l)
        IN  /\ exDebug = hl.exDebug
            /\ infoDebug = hl.infoDebug
            /\ exAddr = hl.exAddr
            /\ infoAddr = hl.infoAddr
            /\ userRole = hl.userRole
            /\ lastSet = <<>>
            /\ lookedUp = [address |-> a, outcome |-> l]
            /\ cliOp = "NewHyperliquid"
            /\ cliErr = "nil"

SetDebugActive ==
    /\ exDebug' = ClientSetDebugActive(exDebug)
    /\ infoDebug' = ClientSetDebugActive(infoDebug)
    /\ cliOp' = "SetDebugActive"
    /\ cliErr' = "nil"
    /\ UNCHANGED <<exAddr, infoAddr, userRole, lastSet, lookedUp, notClient>>

\* A setter that forgets the embedded InfoAPI.
SetAccountAddressExchangeOnly(accountAddress) ==
    /\ exAddr' = ClientSetAccountAddress(exAddr, accountAddress)
    /\ lastSet' = <<accountAddress>>
    /\ cliOp' = "SetAccountAddress"
    /\ cliErr' = "nil"
    /\ UNCHANGED <<exDebug, infoDebug, infoAddr, userRole, lookedUp, notClient>>

SetAccountAddress(accountAddress) ==
    /\ exAddr' = ClientSetAccountAddress(exAddr, accountAddress)
    /\ infoAddr' = ClientSetAccountAddress(infoAddr, accountAddress)
    /\ lastSet' = <<accountAddress>>
    /\ cliOp' = "SetAccountAddress"
    /\ cliErr' = "nil"
    /\ UNCHANGED <<exDebug, infoDebug, userRole, lookedUp, notClient>>

UpdateVaultAddress(address) ==
    \E l \in Roles \cup {LookupError} :
        LET r == UpdateVaultAddressResult(userRole, l)
        IN  /\ userRole' = r.role
            /\ cliErr' = r.err
            /\ lookedUp' = [address |-> address, outcome |-> l]
            /\ cliOp' = "UpdateVaultAddress"
            /\ UNCHANGED <<exDebug, infoDebug, exAddr, infoAddr, lastSet, notClient>>

\* An UpdateAccountVaultAddress that hands the error on.
UpdateAccountVaultAddressReporting ==
    \E l \in Roles \cup {LookupError} :
        /\ userRole' = UpdateVaultAddressResult(userRole, l).role
        /\ cliErr' = UpdateVaultAddressResult(userRole, l).err
        /\ lookedUp' = [address |-> AccountAddress, outcome |-> l]
        /\ cliOp' = "UpdateAccountVaultAddress"
        /\ UNCHANGED <<exDebug, infoDebug, exAddr, infoAddr, lastSet, notClient>>

\* h.UpdateVaultAddress(h.AccountAddress()), its error dropped.
UpdateAccountVaultAddress ==
    \E l \in Roles \cup {LookupError} :
        /\ userRole' = UpdateVaultAddressResult(userRole, l).role
        /\ cliErr' = "nil"
        /\ lookedUp' = [address |-> AccountAddress, outcome |-> l]
        /\ cliOp' = "UpdateAccountVaultAddress"
        /\ UNCHANGED <<exDebug, infoDebug, exAddr, infoAddr, lastSet, notClient>>

(***************************************************************************)
(* Inputs of the encoders and of the order builder.                        *)
(***************************************************************************)
MaxDigits == 6
MaxNegDigits == 3
MaxSzDecimals == 2
MaxSymLen == 2
MaxNonce == 6

\* Digits that round down (0), sit on the half (5) and round up or carry (9).
DigitSet == {0, 5, 9}

RECURSIVE MantissasOfLen(_)
MantissasOfLen(l) ==
    IF l <= 0 THEN {0}
    ELSE {10 * m + d : m \in MantissasOfLen(l - 1), d \in DigitSet}

Mantissas == MantissasOfLen(MaxDigits)

\* 1234.1 and 0.012345678, the prices the specification names, and -55.5559,
\* a negative price of six significant digits.
NamedPrices == {Dec(FALSE, 12341, 1), Dec(FALSE, 12345678, 9), Dec(TRUE, 555559, 4)}

\* Negative inputs carry fewer digits: what sets them apart is the sign.
EncInputs ==
    {Dec(FALSE, n, k) : n \in Mantissas, k \in 0..MaxDigits}
        \cup {Dec(TRUE, n, k) : n \in MantissasOfLen(MaxNegDigits), k \in 0..MaxDigits}
        \cup NamedPrices

\* The inputs of FloatToWire: both signs, and 5.55559 with its negative.
FloatInputs ==
    {Dec(s, n, k) : s \in BOOLEAN, n \in MantissasOfLen(MaxNegDigits), k \in 0..MaxDigits}
        \cup {Dec(FALSE, 555559, 5), Dec(TRUE, 555559, 5)}

MaxDecimalsChoices == {1, PERP_MAX_DECIMALS, SPOT_MAX_DECIMALS}
SzDecimalsChoices == 0..MaxSzDecimals
\* szDecimals is an int: nothing keeps a caller from passing a negative one.
SizeSzDecimalsChoices == (0 - 1)..MaxSzDecimals
\* szDecimals *int: nil, or a pointer to a count of decimals.
OptSzDecimalsChoices == {<<>>} \cup {<<d>> : d \in SzDecimalsChoices}

SymChars == {"A", "@", "-"}

RECURSIVE SymbolsOfLen(_)
SymbolsOfLen(l) ==
    IF l <= 0 THEN {<<>>}
    ELSE {Append(w, c) : w \in SymbolsOfLen(l - 1), c \in SymChars}

Symbols == UNION {SymbolsOfLen(l) : l \in 0..MaxSymLen}

OrderTypes ==
    {[Limit |-> l, Trigger |-> t] :
        l \in {<<>>, <<[Tif |-> "Gtc"]>>},
        t \in {<<>>, <<[TpSl |-> "tp", TriggerPx |-> "1234.1", IsMarket |-> TRUE]>>}}

OrderPrices == {Dec(FALSE, 12341, 1), Dec(FALSE, 123456, 7)}
OrderSizes == {Dec(FALSE, 1, 2), Dec(FALSE, 15, 1)}

OrderRequests ==
    {[OrderID |-> id, Coin |-> c, IsBuy |-> b, Sz |-> sz, LimitPx |-> px,
      OrderType |-> ot, ReduceOnly |-> ro, Cloid |-> cl] :
        id \in {<<>>, <<5>>}, c \in Symbols, b \in BOOLEAN, sz \in OrderSizes,
        px \in OrderPrices, ot \in OrderTypes, ro \in BOOLEAN, cl \in {"", "0xc1"}}

AssetInfos ==
    {[SzDecimals |-> d, WeiDecimals |-> 0, AssetID |-> a, SpotName |-> ""] :
        d \in {0, MaxSzDecimals}, a \in {0, 7}}

\* The empty map and the maps that know one one-character symbol.
MetaMaps ==
    {<<>>} \cup {[c \in {w} |-> i] : w \in SymbolsOfLen(1), i \in AssetInfos}

VaultAddresses == {<<>>, <<"">>, <<"0xabcdef0000">>}
ActionTypes == {"order", "cancel", "batchModify"}
Signatures == {[R |-> "0x01", S |-> "0x02", V |-> 27], [R |-> "0x03", S |-> "0x04", V |-> 28]}

(***************************************************************************)
(* The state of a part before any of its operations ran.                   *)
(***************************************************************************)
NoString == <<"?">>

EncIdle ==
    /\ encFn = "none"
    /\ encX = Dec(FALSE, 0, 0)
    /\ encMaxDec = 0
    /\ encSzDec = 0
    /\ encOut = NoString
    /\ encAgain = NoString
    /\ encErr = "nil"

OrdIdle ==
    /\ ordFn = "none"
    /\ ordReq = <<>>
    /\ ordMeta = <<>>
    /\ ordInfo = ZeroAssetInfo
    /\ ordWire = <<>>
    /\ ordModify = <<>>
    /\ ordErr = "nil"

EnvIdle ==
    /\ envelope = <<>>
    /\ payload = <<>>
    /\ typedSig = <<>>

CliIdle ==
    /\ exDebug = FALSE
    /\ infoDebug = FALSE
    /\ exAddr = ""
    /\ infoAddr = ""
    /\ userRole = ""
    /\ lastSet = <<>>
    /\ lookedUp = <<>>
    /\ cliOp = "none"
    /\ cliErr = "nil"

(***************************************************************************)
(* The nonce generator under concurrent callers.                           *)
(***************************************************************************)
Init == NonceInit /\ EncIdle /\ encNaN = 0 /\ OrdIdle /\ EnvIdle /\ CliIdle

Next == \E p \in Callers : NextNonce(p)

Spec == Init /\ [][Next]_vars

(***************************************************************************)
(* NextNonce under fair scheduling.  The Go scheduler preempts, so a        *)
(* goroutine that can take its next step takes it: weak fairness on the    *)
(* steps inside the critical section.  sync.Mutex hands the lock to the    *)
(* longest waiter once it has waited 1ms (starvation mode), so a caller    *)
(* for which the lock keeps becoming free does get it: strong fairness on  *)
(* Lock.  Nothing obliges a caller to call.  The calls are fewer than in   *)
(* Spec, which keeps the graph TLC searches for cycles small.              *)
(***************************************************************************)
MaxLiveCalls == 2

CallLive(p) ==
    /\ Len(issued) + Cardinality({q \in Callers : pc[q] # "idle"}) < MaxLiveCalls
    /\ Call(p)

NextLive ==
    \E p \in Callers :
        \/ CallLive(p)
        \/ Lock(p)
        \/ ReadClock(p)
        \/ Update(p)
        \/ Return(p)
        \/ Unlock(p)

Fairness ==
    \A p \in Callers :
        /\ SF_vars(Lock(p))
        /\ WF_vars(ReadClock(p))
        /\ WF_vars(Update(p))
        /\ WF_vars(Return(p))
        /\ WF_vars(Unlock(p))

SpecLive == Init /\ [][NextLive]_vars /\ Fairness

(***************************************************************************)
(* Both nonce sources of the package, called in any order.                 *)
(***************************************************************************)
NextNonces == (\E p \in Callers : NextNonce(p)) \/ GetNonce

SpecNonces == Init /\ [][NextNonces]_vars

(***************************************************************************)
(* The encoders on their inputs: a call returns the string, and the string *)
(* parsed back is encoded once more with the same decimals.                *)
(***************************************************************************)
CallPriceToWire ==
    /\ encFn = "none"
    /\ \E x \in EncInputs, md \in MaxDecimalsChoices, sz \in SzDecimalsChoices :
        \E nan \in (IF x.neg THEN NaNExponents ELSE {0}) :
            LET out == PriceToWire(x, md, sz, nan)
            IN  /\ encFn' = "PriceToWire"
                /\ encX' = x
                /\ encMaxDec' = md
                /\ encSzDec' = sz
                /\ encNaN' = nan
                /\ encOut' = out
                /\ encAgain' = PriceToWire(ParseFloat(out), md, sz, nan)
                /\ encErr' = "nil"
    /\ UNCHANGED <<nonceVars, ordVars, envVars, cliVars>>

CallSizeToWire ==
    /\ encFn = "none"
    /\ \E x \in EncInputs, sz \in SizeSzDecimalsChoices :
            LET out == SizeToWire(x, sz)
            IN  /\ encFn' = "SizeToWire"
                /\ encX' = x
                /\ encSzDec' = sz
                /\ encOut' = out
                /\ encAgain' = SizeToWire(ParseFloat(out), sz)
                /\ encErr' = "nil"
    /\ UNCHANGED <<encMaxDec, encNaN, nonceVars, ordVars, envVars, cliVars>>

\* The three-argument FloatToWire: it returns a string and nothing else.
CallFloatToWire ==
    /\ encFn = "none"
    /\ \E x \in FloatInputs, md \in MaxDecimalsChoices, sz \in {0, MaxSzDecimals},
          tieUp \in BOOLEAN :
            LET out == FloatToWire(x, md, sz, tieUp)
            IN  /\ encFn' = "FloatToWire"
                /\ encX' = x
                /\ encMaxDec' = md
                /\ encSzDec' = sz
                /\ encOut' = out
                /\ encAgain' = FloatToWire(ParseFloat(out), md, sz, tieUp)
                /\ encErr' = "nil"
    /\ UNCHANGED <<encNaN, nonceVars, ordVars, envVars, cliVars>>

\* The older FloatToWire, with its optional szDecimals.
CallFloatToWireOpt ==
    /\ encFn = "none"
    /\ \E x \in FloatInputs, sz \in OptSzDecimalsChoices, tieUp \in BOOLEAN :
            LET out == FloatToWireOpt(x, sz, tieUp)
            IN  /\ encFn' = "FloatToWireOpt"
                /\ encX' = x
                /\ encSzDec' = sz
                /\ encOut' = out
                /\ encAgain' = FloatToWireOpt(ParseFloat(out), sz, tieUp)
                /\ encErr' = "nil"
    /\ UNCHANGED <<encMaxDec, encNaN, nonceVars, ordVars, envVars, cliVars>>

InitEnc == NonceInit /\ EncIdle /\ encNaN = 0 /\ OrdIdle /\ EnvIdle /\ CliIdle

NextEnc == CallPriceToWire \/ CallSizeToWire \/ CallFloatToWire \/ CallFloatToWireOpt

SpecEnc == InitEnc /\ [][NextEnc]_vars

(***************************************************************************)
(* The order builder: a request is built into a wire order, from an        *)
(* AssetInfo or from the symbol map.                                       *)
(***************************************************************************)
CallToWire ==
    /\ ordFn = "none"
    /\ \E req \in OrderRequests, info \in AssetInfos :
        /\ ordFn' = "ToWire"
        /\ ordReq' = req
        /\ ordInfo' = info
        /\ ordWire' = ToWire(req, info, encNaN)
    /\ UNCHANGED <<ordMeta, ordModify, ordErr, nonceVars, encVars, envVars, cliVars>>

\* ToWireMeta returns an OrderWire and nothing else: no error reaches the caller.
CallToWireMeta ==
    /\ ordFn = "none"
    /\ \E req \in OrderRequests, meta \in MetaMaps :
        /\ ordFn' = "ToWireMeta"
        /\ ordReq' = req
        /\ ordMeta' = meta
        /\ ordInfo' = MapIndex(meta, req.Coin)
        /\ ordWire' = ToWireMeta(req, meta, encNaN)
    /\ UNCHANGED <<ordModify, ordErr, nonceVars, encVars, envVars, cliVars>>

\* ToModifyWire dereferences req.OrderID before anything else.
CallToModifyWire ==
    /\ ordFn = "none"
    /\ \E req \in OrderRequests, info \in AssetInfos :
        /\ ordFn' = "ToModifyWire"
        /\ ordReq' = req
        /\ ordInfo' = info
        /\ IF req.OrderID = <<>>
           THEN /\ ordModify' = <<>>
                /\ ordErr' = NilDereference
           ELSE /\ ordModify' = ToModifyWire(req, info, encNaN)
                /\ ordErr' = "nil"
    /\ UNCHANGED <<ordMeta, ordWire, nonceVars, encVars, envVars, cliVars>>

InitOrder ==
    /\ NonceInit /\ EncIdle /\ OrdIdle /\ EnvIdle /\ CliIdle
    /\ encNaN \in NaNExponents

NextOrder == CallToWire \/ CallToWireMeta \/ CallToModifyWire

SpecOrder == InitOrder /\ [][NextOrder]_vars

(***************************************************************************)
(* The encoders called while NextNonce runs.  The request, the AssetInfo   *)
(* and the symbol map exist before the calls and are handed to them: the   *)
(* request by pointer, the map by reference, the AssetInfo by value.  Each  *)
(* encoder takes no lock and reads nothing but its arguments, so a call is *)
(* one step; an order encoder, a number encoder and ToTypedSig may each    *)
(* run once, at any point between the steps of the NextNonce callers.      *)
(***************************************************************************)
MaxSharedCalls == 1

CallShared(p) ==
    /\ Len(issued) + Cardinality({q \in Callers : pc[q] # "idle"}) < MaxSharedCalls
    /\ Call(p)

NextNonceShared ==
    \E p \in Callers :
        \/ CallShared(p)
        \/ Lock(p)
        \/ ReadClock(p)
        \/ Update(p)
        \/ Return(p)
        \/ Unlock(p)

SharedRequests ==
    {[OrderID |-> <<5>>, Coin |-> c, IsBuy |-> TRUE, Sz |-> Dec(FALSE, 15, 1),
      LimitPx |-> Dec(FALSE, 12341, 1), OrderType |-> ot, ReduceOnly |-> FALSE,
      Cloid |-> "0xc1"] :
        c \in {<<"A">>, <<"@">>},
        ot \in {[Limit |-> <<[Tif |-> "Gtc"]>>, Trigger |-> <<>>]}}

SharedInfo == [SzDecimals |-> MaxSzDecimals, WeiDecimals |-> 0, AssetID |-> 7, SpotName |-> ""]

\* The bytes of r and s, cut to two.
SigBytes == {<<0, 171>>, <<255, 16>>}

SharedToWire ==
    /\ ordFn = "none"
    /\ ordFn' = "ToWire"
    /\ ordWire' = ToWire(ordReq, ordInfo, encNaN)
    /\ UNCHANGED <<ordReq, ordMeta, ordInfo, ordModify, ordErr,
                   nonceVars, encVars, envVars, cliVars>>

SharedToWireMeta ==
    /\ ordFn = "none"
    /\ ordFn' = "ToWireMeta"
    /\ ordMeta' = MapAfterIndex(ordMeta, ordReq.Coin)
    /\ ordWire' = ToWireMeta(ordReq, ordMeta, encNaN)
    /\ UNCHANGED <<ordReq, ordInfo, ordModify, ordErr,
                   nonceVars, encVars, envVars, cliVars>>

SharedToModifyWire ==
    /\ ordFn = "none"
    /\ ordFn' = "ToModifyWire"
    /\ ordModify' = ToModifyWire(ordReq, ordInfo, encNaN)
    /\ UNCHANGED <<ordReq, ordMeta, ordInfo, ordWire, ordErr,
                   nonceVars, encVars, envVars, cliVars>>

SharedOrderTypeToWire ==
    /\ ordFn = "none"
    /\ ordFn' = "OrderTypeToWire"
    /\ ordWire' = OrderTypeToWire(ordReq.OrderType)
    /\ UNCHANGED <<ordReq, ordMeta, ordInfo, ordModify, ordErr,
                   nonceVars, encVars, envVars, cliVars>>

SharedPriceToWire ==
    /\ encFn = "none"
    /\ encFn' = "PriceToWire"
    /\ encX' = ordReq.LimitPx
    /\ encMaxDec' = PERP_MAX_DECIMALS
    /\ encSzDec' = ordInfo.SzDecimals
    /\ encOut' = PriceToWire(ordReq.LimitPx, PERP_MAX_DECIMALS, ordInfo.SzDecimals, encNaN)
    /\ UNCHANGED <<encNaN, encAgain, encErr, nonceVars, ordVars, envVars, cliVars>>

SharedSizeToWire ==
    /\ encFn = "none"
    /\ encFn' = "SizeToWire"
    /\ encX' = ordReq.Sz
    /\ encSzDec' = ordInfo.SzDecimals
    /\ encOut' = SizeToWire(ordReq.Sz, ordInfo.SzDecimals)
    /\ UNCHANGED <<encMaxDec, encNaN, encAgain, encErr, nonceVars, ordVars, envVars, cliVars>>

SharedFloatToWire ==
    /\ encFn = "none"
    /\ encFn' = "FloatToWire"
    /\ encX' = ordReq.LimitPx
    /\ encMaxDec' = PERP_MAX_DECIMALS
    /\ encSzDec' = ordInfo.SzDecimals
    /\ \E tieUp \in BOOLEAN :
           encOut' = FloatToWire(ordReq.LimitPx, PERP_MAX_DECIMALS, ordInfo.SzDecimals, tieUp)
    /\ UNCHANGED <<encNaN, encAgain, encErr, nonceVars, ordVars, envVars, cliVars>>

SharedToTypedSig ==
    /\ typedSig = <<>>
    /\ \E r \in SigBytes, s \in SigBytes, v \in {27, 28} :
           /\ r # s
           /\ typedSig' = [r |-> r, s |-> s, v |-> v, sig |-> ToTypedSig(r, s, v)]
    /\ UNCHANGED <<envelope, payload, nonceVars, encVars, ordVars, cliVars>>

InitShared ==
    /\ NonceInit /\ EncIdle /\ encNaN = 0 /\ EnvIdle /\ CliIdle
    /\ ordFn = "none"
    /\ ordReq \in SharedRequests
    /\ ordMeta = [c \in {<<"A">>} |-> SharedInfo]
    /\ ordInfo = SharedInfo
    /\ ordWire = <<>>
    /\ ordModify = <<>>
    /\ ordErr = "nil"

NextShared ==
    \/ NextNonceShared
    \/ SharedToWire
    \/ SharedToWireMeta
    \/ SharedToModifyWire
    \/ SharedOrderTypeToWire
    \/ SharedPriceToWire
    \/ SharedSizeToWire
    \/ SharedFloatToWire
    \/ SharedToTypedSig

SpecShared == InitShared /\ [][NextShared]_vars

(***************************************************************************)
(* The envelope: built from an action, a nonce, a signature and an         *)
(* optional vault address, then serialized.                                *)
(***************************************************************************)
BuildEnvelope ==
    /\ envelope = <<>>
    /\ \E a \in ActionTypes, n \in 1..MaxNonce, sig \in Signatures, va \in VaultAddresses :
        /\ envelope' = ExchangeRequest(a, n, sig, va)
        /\ payload' = Marshal(envelope')
    /\ UNCHANGED <<typedSig, nonceVars, encVars, ordVars, cliVars>>

InitEnvelope == NonceInit /\ EncIdle /\ encNaN = 0 /\ OrdIdle /\ EnvIdle /\ CliIdle

NextEnvelope == BuildEnvelope

SpecEnvelope == InitEnvelope /\ [][NextEnvelope]_vars

(***************************************************************************)
(* The client after construction, under any sequence of its operations.    *)
(***************************************************************************)
InitClient == NonceInit /\ EncIdle /\ encNaN = 0 /\ OrdIdle /\ EnvIdle /\ CliInit

NextClient ==
    \/ SetDebugActive
    \/ \E a \in Addresses : SetAccountAddress(a)
    \/ \E a \in Addresses : UpdateVaultAddress(a)
    \/ UpdateAccountVaultAddress

SpecClient == InitClient /\ [][NextClient]_vars

(***************************************************************************)
(* Reading a wire string as a number.                                      *)
(***************************************************************************)
\* The number of digits after the decimal point.
FracDigits(s) ==
    IF Contains(s, ".") THEN Len(s) - (CHOOSE i \in DOMAIN s : s[i] = ".") ELSE 0

RECURSIVE TrimLeft(_, _)
TrimLeft(s, c) ==
    IF Len(s) > 0 /\ s[1] = c THEN TrimLeft(Tail(s), c) ELSE s

\* The number of significant digits: the digits left once the sign, the
\* point, the leading zeros and the trailing zeros are taken away.
SigDigits(s) ==
    LET digits == SelectSeq(s, LAMBDA c : c # "-" /\ c # ".")
    IN  Len(TrimRight(TrimLeft(digits, "0"), "0"))

(***************************************************************************)
(* Decimal rounding by integer arithmetic, for the claims to compare with. *)
(* A number is the pair <<n, k>> of its magnitude n / 10^k in lowest form: *)
(* k = 0, or n is no multiple of 10.                                       *)
(***************************************************************************)
RECURSIVE Canon(_, _)
Canon(n, k) == IF k > 0 /\ n % 10 = 0 THEN Canon(n \div 10, k - 1) ELSE <<n, k>>

\* The magnitude of x rounded to d >= 0 decimals, halves away from zero.
RefRound(x, d) ==
    IF x.k <= d THEN Canon(x.n, x.k)
    ELSE LET p == Pow(10, x.k - d)
         IN  Canon((x.n + p \div 2) \div p, d)

\* The magnitude a wire string denotes.
Denoted(s) == LET v == ParseFloat(s) IN Canon(v.n, v.k)

\* The number of digits of the integer part of x >= 1.
RefIntDigits(x) ==
    LET floor == x.n \div Pow(10, x.k)
    IN  CHOOSE d \in 1..9 : Pow(10, d - 1) <= floor /\ floor < Pow(10, d)

\* ceil(-log10 x) for 0 < x < 1: the least e with 10^-e <= x.
RefCeilNegLog10(x) ==
    CHOOSE e \in 1..x.k :
        /\ Pow(10, x.k - e) <= x.n
        /\ x.n < Pow(10, x.k - e + 1)

\* max(0, min(maxDecimals - szDecimals, allowedSig)) for a price x > 0.
RefAllowedDecimals(x, maxDecimals, szDecimals) ==
    LET allowedSig == IF x.n >= Pow(10, x.k) THEN Max(0, 5 - RefIntDigits(x))
                      ELSE 4 + RefCeilNegLog10(x)
    IN  Max(0, Min(maxDecimals - szDecimals, allowedSig))

\* The plain decimal writing of the magnitude <<n, k>>, with a minus for neg.
RefString(neg, c) ==
    LET n == c[1]
        k == c[2]
    IN  (IF neg /\ n # 0 THEN <<"-">> ELSE <<>>)
            \o NatDigits(n \div Pow(10, k))
            \o (IF k = 0 THEN <<>> ELSE <<".">> \o PadDigits(n % Pow(10, k), k))

\* The reference price: an integer as it is, any other x > 0 rounded to the
\* allowed decimals.
RefPrice(x, maxDecimals, szDecimals) ==
    IF x.n % Pow(10, x.k) = 0 THEN RefString(x.neg, <<x.n \div Pow(10, x.k), 0>>)
    ELSE RefString(FALSE, RefRound(x, RefAllowedDecimals(x, maxDecimals, szDecimals)))

\* The magnitude of x rounded to d >= 0 decimals, a half going up or down.
RefRoundTie(x, d, up) ==
    IF x.k <= d THEN Canon(x.n, x.k)
    ELSE LET p == Pow(10, x.k - d)
             q == x.n \div p
             r == x.n % p
         IN  Canon(IF 2 * r > p \/ (2 * r = p /\ up) THEN q + 1 ELSE q, d)

\* The number of decimal digits of the integer part of |x|.
RefIntegerPartDigits(x) ==
    IF x.n < Pow(10, x.k) THEN 1 ELSE RefIntDigits(x)

\* x printed with max(0, maxDecimals - n) decimals, n the digits of its
\* integer part, with its sign, trailing zeros and dangling point stripped.
RefFloat(x, maxDecimals, up) ==
    LET d == Max(0, maxDecimals - RefIntegerPartDigits(x))
    IN  (IF x.neg THEN <<"-">> ELSE <<>>) \o RefString(FALSE, RefRoundTie(x, d, up))

(***************************************************************************)
(* Claims.                                                                 *)
(***************************************************************************)

\* C1: the nonces returned are pairwise distinct and strictly increasing in
\* the order in which the calls ran their critical section, whatever the
\* interleaving of the callers and whatever the clock reads.
C1_NoncesStrictlyIncreasing ==
    \A i, j \in DOMAIN issued : i < j => issued[i].v < issued[j].v

\* Two different callers were served, the second reading a clock that had
\* not moved past the first one's.
C1_Witness ==
    \E i, j \in DOMAIN issued :
        /\ i < j
        /\ issued[i].by # issued[j].by
        /\ issued[j].now <= issued[i].now

\* C2: starting from 0, each call returns its clock reading when that is
\* strictly greater than the last value issued, and the last value plus one
\* otherwise (a clock that stands still or moves backward included).
C2_ClockOrIncrement ==
    \A i \in DOMAIN issued :
        LET last == IF i = 1 THEN 0 ELSE issued[i - 1].v
        IN  issued[i].v = IF issued[i].now > last THEN issued[i].now ELSE last + 1

\* A call whose clock reading lies before the previous call's reading.
C2_Witness ==
    \E i \in DOMAIN issued :
        /\ i > 1
        /\ issued[i].now < issued[i - 1].now
        /\ issued[i].v = issued[i - 1].v + 1

\* C3: building a wire order through the symbol map for a symbol the map
\* does not hold fails with a "symbol not found" error.
C3_MissingSymbolFails ==
    (ordFn = "ToWireMeta" /\ ordReq.Coin \notin DOMAIN ordMeta)
        => ordErr = "symbol not found"

\* C4: a symbol is spot exactly when it holds "@" or "-"; a spot order
\* carries the asset id plus 10000 and a price formatted with 8 decimals at
\* most, any other order the asset id unchanged and a price formatted with 6.
C4_SpotClassification ==
    ordFn \in {"ToWire", "ToWireMeta"} =>
        LET spot == \E i \in DOMAIN ordReq.Coin : ordReq.Coin[i] \in {"@", "-"}
        IN  /\ ordWire.Asset = ordInfo.AssetID + (IF spot THEN 10000 ELSE 0)
            /\ ordWire.LimitPx =
                   PriceToWire(ordReq.LimitPx, IF spot THEN 8 ELSE 6,
                               ordInfo.SzDecimals, encNaN)

\* A symbol written with "-" and no "@", asset id 7, and a price that 6 and 8
\* maximal decimals format differently.
C4_Witness ==
    /\ ordFn = "ToWire"
    /\ Contains(ordReq.Coin, "-") /\ ~Contains(ordReq.Coin, "@")
    /\ ordWire.Asset = 10007
    /\ PriceToWire(ordReq.LimitPx, 8, ordInfo.SzDecimals, encNaN)
           # PriceToWire(ordReq.LimitPx, 6, ordInfo.SzDecimals, encNaN)

C6_SizeShape ==
    (encFn = "SizeToWire" /\ ~encX.neg /\ encSzDec >= 0) =>
        /\ FracDigits(encOut) <= encSzDec
        /\ encOut[Len(encOut)] # "."
        /\ Contains(encOut, ".") => encOut[Len(encOut)] # "0"

\* A size that is no integer, rounded up to one: its zeros and its point go.
C6_Witness ==
    /\ encFn = "SizeToWire"
    /\ ~encX.neg
    /\ ~IsInteger(encX)
    /\ encSzDec > 0
    /\ encOut = <<"1">>

\* C7: encoding is idempotent: the string an encoder returns, parsed back
\* and encoded with the same decimals, comes out identical.
C7_Idempotent == encFn # "none" => encAgain = encOut

\* C8: an envelope without a vault address serializes with no vaultAddress
\* field; one whose vault address is present, the empty string included,
\* serializes the field with that string.
C8_VaultOmission ==
    payload # <<>> =>
        /\ envelope.VaultAddress = <<>> <=> ~HasKey(payload, "vaultAddress")
        /\ envelope.VaultAddress # <<>> =>
               ValueOf(payload, "vaultAddress") = envelope.VaultAddress[1]

\* An envelope built without a vault address, serialized.
C8_Witness ==
    /\ payload # <<>>
    /\ envelope.VaultAddress = <<>>
    /\ ~HasKey(payload, "vaultAddress")

\* C9: after SetAccountAddress calls, the InfoAPI, the ExchangeAPI and the
\* client's own AccountAddress() all report the argument of the latest one.
C9_AddressesAgree ==
    lastSet # <<>> =>
        /\ infoAddr = lastSet[1]
        /\ exAddr = lastSet[1]
        /\ AccountAddress = lastSet[1]

\* An address was set, and operations other than the setter ran since.
C9_Witness ==
    /\ lastSet = <<"0x1234567890">>
    /\ cliOp = "UpdateVaultAddress"
    /\ infoAddr = "0x1234567890"

\* C10: the Debug flag of the InfoAPI equals that of the ExchangeAPI in every
\* state of a client, from construction on.
C10_DebugFlagsAgree == infoDebug = exDebug

\* C11: converting a request whose order type has neither Limit nor Trigger
\* populated is reported to the caller as an input-validation error; no wire
\* order comes out whose order type has no variant populated.
C11_MalformedOrderTypeFails ==
    (ordFn # "none" /\ ordReq.OrderType.Limit = <<>> /\ ordReq.OrderType.Trigger = <<>>)
        => (ordErr # "nil" /\ ordWire = <<>>)

\* C12: a negative szDecimals handed to SizeToWire is reported to the caller
\* as an input-validation error, and no string is produced from it.
C12_NegativeSzDecimalsFails ==
    (encFn = "SizeToWire" /\ encSzDec < 0)
        => (encErr # "nil" /\ encOut = NoString)

\* C13: SizeToWire and PriceToWire never return "0" for an input that is not
\* zero: a value that rounds to zero is surfaced as an error.
C13_NoSilentZero ==
    (encFn \in {"PriceToWire", "SizeToWire"} /\ encX.n # 0)
        => (encOut # <<"0">> \/ encErr # "nil")

\* C14: for the input zero every encoder (PriceToWire, SizeToWire and both
\* forms of FloatToWire) returns exactly "0", whatever the decimals arguments.
C14_ZeroIsZero ==
    (encFn # "none" /\ encX.n = 0) => encOut = <<"0">>

\* C19: the wire order type has at most one variant populated; an input with
\* exactly one of Limit/Trigger populated comes out as that variant with the
\* same fields and the other absent, and of an input with both only Limit is
\* kept.
C19_OneVariant ==
    ordFn \in {"ToWire", "ToWireMeta"} =>
        LET given == ordReq.OrderType
            wire == ordWire.OrderType
        IN  /\ wire.Limit = <<>> \/ wire.Trigger = <<>>
            /\ (given.Limit # <<>> /\ given.Trigger = <<>>) =>
                   (wire.Limit = given.Limit /\ wire.Trigger = <<>>)
            /\ (given.Limit = <<>> /\ given.Trigger # <<>>) =>
                   (wire.Trigger = given.Trigger /\ wire.Limit = <<>>)
            /\ (given.Limit # <<>> /\ given.Trigger # <<>>) =>
                   (wire.Limit = given.Limit /\ wire.Trigger = <<>>)

\* An order type with both variants populated went in, and Limit alone came out.
C19_Witness ==
    /\ ordFn = "ToWire"
    /\ ordReq.OrderType.Limit # <<>>
    /\ ordReq.OrderType.Trigger # <<>>
    /\ ordWire.OrderType.Limit = <<[Tif |-> "Gtc"]>>
    /\ ordWire.OrderType.Trigger = <<>>

\* C20: for a request that carries an order id, ToModifyWire returns that order
\* id together with an order equal, field for field, to what ToWire returns
\* for the same request and AssetInfo.
C20_ModifyCarriesToWire ==
    (ordFn = "ToModifyWire" /\ ordReq.OrderID # <<>>) =>
        /\ ordErr = "nil"
        /\ ordModify.OrderID = ordReq.OrderID[1]
        /\ \A f \in {"Asset", "IsBuy", "LimitPx", "SizePx", "ReduceOnly", "OrderType", "Cloid"} :
               ordModify.Order[f] = ToWire(ordReq, ordInfo, encNaN)[f]

\* A modify of order 5 on a spot symbol with a non-zero AssetInfo.
C20_Witness ==
    /\ ordFn = "ToModifyWire"
    /\ ordReq.OrderID = <<5>>
    /\ ordModify.OrderID = 5
    /\ ordModify.Order.Asset = 10007
    /\ ordInfo.SzDecimals = MaxSzDecimals

\* C15: across any sequence of calls to GetNonce and NextNonce, GetNonce
\* never returns a value that it or NextNonce returned before, and never a
\* value smaller than an earlier one.
C15_GetNonceFresh ==
    \A j \in DOMAIN fetched :
        /\ \A i \in 1..(j - 1) : fetched[i].v < fetched[j].v
        /\ \A i \in 1..fetched[j].after : issued[i].v < fetched[j].v

\* C16: under fair scheduling every NextNonce call that was entered returns:
\* the lock is released on the way out, so no caller waits for it forever,
\* whatever the clock reads.
C16_EveryCallReturns ==
    \A p \in Callers : (pc[p] # "idle") ~> (pc[p] = "idle")

\* A caller waits for the lock while another one, holding it, has read a
\* clock before 1970.
C16_Witness ==
    \E p, q \in Callers :
        /\ pc[p] = "lock"
        /\ nonceLock = q
        /\ pc[q] = "update"
        /\ now[q] < 0

C18_SizeRoundsHalfAway ==
    (encFn = "SizeToWire" /\ encSzDec >= 0) =>
        /\ Denoted(encOut) = RefRound(encX, encSzDec)
        /\ Denoted(encOut)[1] # 0 => ParseFloat(encOut).neg = encX.neg

\* C21: FloatToWire(x, maxDecimals, szDecimals) prints x with
\* max(0, maxDecimals - n) decimals, n being the number of digits of the
\* integer part of x (the same for x and -x), then strips trailing zeros and
\* a dangling point; szDecimals plays no part.
C21_FloatBudget ==
    encFn = "FloatToWire" =>
        \E up \in BOOLEAN : encOut = RefFloat(encX, encMaxDec, up)

\* A step of an encoder leaves the request, the AssetInfo, the map and the
\* nonce generator alone; a step of NextNonce leaves the encoders' objects
\* and results alone.
EncoderFrame ==
    /\ (ordFn' # ordFn \/ encFn' # encFn \/ typedSig' # typedSig) =>
           UNCHANGED <<ordReq, ordInfo, ordMeta, nonceVars>>
    /\ (nonceVars' # nonceVars) =>
           UNCHANGED <<ordReq, ordInfo, ordMeta, ordWire, ordModify, encOut, typedSig>>

\* Each result present is what the encoder yields for its arguments alone.
EncoderResults ==
    /\ ordFn = "ToWire" => ordWire = ToWire(ordReq, SharedInfo, 0)
    /\ ordFn = "ToWireMeta" =>
           ordWire = ToWire(ordReq, IF ordReq.Coin = <<"A">> THEN SharedInfo
                                    ELSE ZeroAssetInfo, 0)
    /\ ordFn = "ToModifyWire" => ordModify.Order = ToWire(ordReq, SharedInfo, 0)
    /\ encFn = "PriceToWire" => encOut = <<"1", "2", "3", "4", ".", "1">>
    /\ encFn = "SizeToWire" => encOut = <<"1", ".", "5">>
    /\ typedSig # <<>> => typedSig.sig = ToTypedSig(typedSig.r, typedSig.s, typedSig.v)

\* C22: the nonce counter is the only shared state: a step of ToWire,
\* ToWireMeta, ToModifyWire, OrderTypeToWire, PriceToWire, SizeToWire,
\* FloatToWire or ToTypedSig leaves the OrderRequest, the AssetInfo, the
\* symbol map and the nonce generator as they were, a step of NextNonce
\* leaves every encoder's result as it was, and each result is what the
\* encoder yields for its arguments alone, however the calls interleave.
C22_EncodersShareNothing == [][EncoderFrame]_vars /\ []EncoderResults

\* ToWireMeta has looked up a symbol the map does not hold, a number encoder
\* and ToTypedSig have run, and a NextNonce caller is inside its critical
\* section, all three after it read the clock.
C22_Witness ==
    /\ ordFn = "ToWireMeta"
    /\ ordReq.Coin \notin DOMAIN ordMeta
    /\ encFn # "none"
    /\ typedSig # <<>>
    /\ \E p \in Callers : pc[p] = "update" /\ now[p] > 0

\* What a step of UpdateVaultAddress does to the role.
UpdateVaultAddressStep ==
    cliOp' = "UpdateVaultAddress" =>
        IF lookedUp'.outcome = LookupError
        THEN cliErr' = LookupError /\ userRole' = userRole
        ELSE cliErr' = "nil" /\ userRole' = lookedUp'.outcome

\* C23: when the role lookup fails, UpdateVaultAddress returns that error and
\* leaves the ExchangeAPI's user role as it was before the call; the role
\* changes only when the lookup succeeds, and then to the role it returned.
C23_FailedLookupKeepsRole == [][UpdateVaultAddressStep]_vars

\* A lookup failed after an earlier one had set the role to "vault".
C23_Witness ==
    /\ cliOp = "UpdateVaultAddress"
    /\ cliErr = LookupError
    /\ lookedUp.outcome = LookupError
    /\ userRole = "vault"

\* A client as NewHyperliquid returns it: no error, and the role still at
\* its initial value when the lookup failed.
NewHyperliquidQuiet ==
    cliOp = "NewHyperliquid" =>
        /\ cliErr = "nil"
        /\ lookedUp.outcome = LookupError => userRole = ""

\* What a step of UpdateAccountVaultAddress shows of a failed lookup.
UpdateAccountVaultAddressStep ==
    cliOp' = "UpdateAccountVaultAddress" =>
        /\ cliErr' = "nil"
        /\ lookedUp'.outcome = LookupError => userRole' = userRole

\* C26: a failed role lookup never shows through NewHyperliquid or
\* UpdateAccountVaultAddress: both drop the error UpdateVaultAddress returns,
\* so NewHyperliquid always returns a client and UpdateAccountVaultAddress
\* always completes, the user role left at its previous (initial) value.
C26_LookupFailureHidden == []NewHyperliquidQuiet /\ [][UpdateAccountVaultAddressStep]_vars

\* UpdateAccountVaultAddress ran into a failed lookup with the role at "vault".
C26_Witness ==
    /\ cliOp = "UpdateAccountVaultAddress"
    /\ lookedUp.outcome = LookupError
    /\ cliErr = "nil"
    /\ userRole = "vault"

\* C24: nonces track real time: every value NextNonce returns is at least the
\* clock reading taken during that call, and whenever that reading exceeds
\* the last value issued the value returned is the reading itself.
C24_TracksClock ==
    \A i \in DOMAIN issued :
        /\ issued[i].v >= issued[i].now
        /\ issued[i].now > (IF i = 1 THEN 0 ELSE issued[i - 1].v) =>
               issued[i].v = issued[i].now

\* Two calls in the same millisecond pushed the counter ahead of the clock,
\* and the third call, its clock past the counter, returned the clock.
C24_Witness ==
    /\ Len(issued) = 3
    /\ issued[2].now = issued[1].now
    /\ issued[2].v > issued[2].now
    /\ issued[3].now > issued[2].v
    /\ issued[3].v = issued[3].now

\* C25: in every encoder, stripping trailing zeros removes only digits after
\* a decimal point: the string returned holds a digit and, read as a number,
\* is the input rounded to some number of decimals, so that 10 or 100000
\* never comes out as "1" or as the empty string.
C25_StripKeepsValue ==
    encFn # "none" =>
        /\ \E i \in DOMAIN encOut : encOut[i] \notin {"-", "."}
        /\ \E d \in 0..SPOT_MAX_DECIMALS, up \in BOOLEAN :
               Denoted(encOut) = RefRoundTie(encX, d, up)

====
